---- MODULE Spec2Model ----
(***************************************************************************)
(* ghettp: a minimal HTTP/1.1 server.  class socket (the Listener) owns    *)
(* the listening descriptor, the accept loop and the per-connection        *)
(* pipeline; class server (the Router) owns the route table and the        *)
(* start/stop lifecycle.                                                   *)
(*                                                                         *)
(* A byte is a one-character string and a std::string is a sequence of     *)
(* bytes, so that parsing and serialization are computed byte by byte.     *)
(***************************************************************************)
EXTENDS Integers, Sequences, FiniteSets, TLC

\* The byte 0 (cannot be written as a character of a TLA+ string).
NUL == "NUL"

(***************************************************************************)
(* String literals of the source.                                          *)
(***************************************************************************)
kGET ==
    <<"G", "E", "T">>

kPOST ==
    <<"P", "O", "S", "T">>

kPUT ==
    <<"P", "U", "T">>

kDELETE ==
    <<"D", "E", "L", "E", "T", "E">>

sOK ==
    <<"O", "K">>

sError ==
    <<"E", "r", "r", "o", "r">>

sNotFound ==
    <<"N", "o", "t", " ", "F", "o", "u", "n", "d">>

sContentType ==
    <<"C", "o", "n", "t", "e", "n", "t", "-", "T", "y", "p", "e">>

sContentLength ==
    <<"C", "o", "n", "t", "e", "n", "t", "-", "L", "e", "n", "g", "t", "h">>

sTextHtml ==
    <<"t", "e", "x", "t", "/", "h", "t", "m", "l">>

sTextPlain ==
    <<"t", "e", "x", "t", "/", "p", "l", "a", "i", "n">>

sApplicationJson ==
    <<"a", "p", "p", "l", "i", "c", "a", "t", "i", "o", "n", "/", "j", "s", "o", "n">>

sNotFoundBody ==
    <<"<", "h", "t", "m", "l", ">", "<", "b", "o", "d", "y", ">", "<", "h", "1", ">",
      "4", "0", "4", " ", "-", " ", "N", "o", "t", " ", "F", "o", "u", "n", "d", "<",
      "/", "h", "1", ">", "<", "/", "b", "o", "d", "y", ">", "<", "/", "h", "t", "m",
      "l", ">">>

sHttp11 ==
    <<"H", "T", "T", "P", "/", "1", ".", "1", " ">>

sColonSpace ==
    <<":", " ">>

sCRLF ==
    <<"\r", "\n">>

sContentLengthColon ==
    <<"C", "o", "n", "t", "e", "n", "t", "-", "L", "e", "n", "g", "t", "h", ":", " ">>

error_response ==
    <<"H", "T", "T", "P", "/", "1", ".", "1", " ", "5", "0", "0", " ", "I", "n", "t",
      "e", "r", "n", "a", "l", " ", "S", "e", "r", "v", "e", "r", " ", "E", "r", "r",
      "o", "r", "\r", "\n", "C", "o", "n", "t", "e", "n", "t", "-", "T", "y", "p", "e",
      ":", " ", "t", "e", "x", "t", "/", "p", "l", "a", "i", "n", "\r", "\n", "C", "o",
      "n", "t", "e", "n", "t", "-", "L", "e", "n", "g", "t", "h", ":", " ", "2", "1",
      "\r", "\n", "\r", "\n", "I", "n", "t", "e", "r", "n", "a", "l", " ", "S", "e", "r",
      "v", "e", "r", " ", "E", "r", "r", "o", "r">>

sInternalServerError ==
    <<"I", "n", "t", "e", "r", "n", "a", "l", " ", "S", "e", "r", "v", "e", "r", " ",
      "E", "r", "r", "o", "r">>

sHi ==
    <<"<", "h", "1", ">", "H", "i", "<", "/", "h", "1", ">">>

sAbc ==
    <<"a", "b", "c">>

sFive ==
    <<"5">>

pRoot ==
    <<"/">>

pEcho ==
    <<"/", "e", "c", "h", "o">>

inGetRoot ==
    <<"G", "E", "T", " ", "/", " ", "H", "T", "T", "P", "/", "1", ".", "1", "\r", "\n",
      "\r", "\n">>

inPostEcho ==
    <<"P", "O", "S", "T", " ", "/", "e", "c", "h", "o", " ", "H", "T", "T", "P", "/",
      "1", ".", "1", "\r", "\n", "\r", "\n", "a", "b", "c">>

inPutRoot ==
    <<"P", "U", "T", " ", "/", " ", "H", "T", "T", "P", "/", "1", ".", "1", "\r", "\n",
      "\r", "\n">>

inDeleteRoot ==
    <<"D", "E", "L", "E", "T", "E", " ", "/", " ", "H", "T", "T", "P", "/", "1", ".",
      "1", "\r", "\n", "\r", "\n">>

inPutEcho ==
    <<"P", "U", "T", " ", "/", "e", "c", "h", "o", " ", "H", "T", "T", "P", "/", "1",
      ".", "1", "\r", "\n", "\r", "\n">>

inGetQuery ==
    <<"G", "E", "T", " ", "/", "?", "q", " ", "H", "T", "T", "P", "/", "1", ".", "1",
      "\r", "\n", "X", ":", " ", "y", "\r", "\n", "\r", "\n", "z", "z">>

inHeadRoot ==
    <<"H", "E", "A", "D", " ", "/", " ", "H", "T", "T", "P", "/", "1", ".", "1", "\r",
      "\n", "\r", "\n">>

inGetEcho ==
    <<"G", "E", "T", " ", "/", "e", "c", "h", "o", " ", "H", "T", "T", "P", "/", "1",
      ".", "1", "\r", "\n", "\r", "\n">>

inBareLF ==
    <<"\n">>

(***************************************************************************)
(* std::string and std::map primitives.                                    *)
(***************************************************************************)
\* The byte 96, the grave accent.
BackQuote == "GRAVE"

AsciiPrintable ==
    <<" ", "!", "\"", "#", "$", "%", "&", "'", "(", ")", "*", "+", ",", "-", ".", "/",
      "0", "1", "2", "3", "4", "5", "6", "7", "8", "9", ":", ";", "<", "=", ">", "?",
      "@", "A", "B", "C", "D", "E", "F", "G", "H", "I", "J", "K", "L", "M", "N", "O",
      "P", "Q", "R", "S", "T", "U", "V", "W", "X", "Y", "Z", "[", "\\", "]", "^", "_",
      BackQuote, "a", "b", "c", "d", "e", "f", "g", "h", "i", "j", "k", "l", "m", "n", "o",
      "p", "q", "r", "s", "t", "u", "v", "w", "x", "y", "z", "{", "|", "}", "~">>

\* The value of a byte as unsigned char.
CharCode(c) ==
    IF c = NUL THEN 0
    ELSE IF c = "\t" THEN 9
    ELSE IF c = "\n" THEN 10
    ELSE IF c = "\f" THEN 12
    ELSE IF c = "\r" THEN 13
    ELSE 31 + (CHOOSE i \in 1..Len(AsciiPrintable) : AsciiPrintable[i] = c)

\* std::string operator< : lexicographic on bytes (the order of std::map keys).
RECURSIVE StrLess(_, _)
StrLess(a, b) ==
    IF b = <<>> THEN FALSE
    ELSE IF a = <<>> THEN TRUE
    ELSE IF a[1] = b[1] THEN StrLess(Tail(a), Tail(b))
    ELSE CharCode(a[1]) < CharCode(b[1])

\* The keys of a std::map<std::string, ...> in iteration order.
RECURSIVE SortedKeys(_)
SortedKeys(S) ==
    IF S = {} THEN <<>>
    ELSE LET k == CHOOSE x \in S : \A y \in S \ {x} : StrLess(x, y)
         IN  <<k>> \o SortedKeys(S \ {k})

\* An empty std::map.
EmptyMap == [k \in {} |-> <<>>]

\* map[key] = value : insert or overwrite one entry.
MapPut(m, key, value) ==
    [k \in (DOMAIN m) \cup {key} |-> IF k = key THEN value ELSE m[k]]

Digits == <<"0", "1", "2", "3", "4", "5", "6", "7", "8", "9">>

\* operator<< of an integer: its decimal digits.
RECURSIVE ToDec(_)
ToDec(n) ==
    IF n < 0 THEN <<"-">> \o ToDec(-n)
    ELSE IF n < 10 THEN <<Digits[n + 1]>>
    ELSE ToDec(n \div 10) \o <<Digits[(n % 10) + 1]>>

\* The position of the first byte c in s, 0 when there is none (std::string::find).
FirstIndex(s, c) ==
    IF \E i \in 1..Len(s) : s[i] = c
    THEN CHOOSE i \in 1..Len(s) : s[i] = c /\ \A j \in 1..(i - 1) : s[j] # c
    ELSE 0

\* The lines successive std::getline calls extract from a stream holding s:
\* each ends at a line feed (dropped) or at the end of the data; at the end of
\* the data with nothing extracted getline fails.
RECURSIVE getlines(_)
getlines(s) ==
    IF s = <<>> THEN <<>>
    ELSE LET i == FirstIndex(s, "\n")
         IN  IF i = 0 THEN <<s>>
             ELSE <<SubSeq(s, 1, i - 1)>> \o getlines(SubSeq(s, i + 1, Len(s)))

\* std::isspace in the default locale.
IsSpace(c) == c \in {" ", "\t", "\n", "\f", "\r"}

\* s with its leading whitespace skipped.
RECURSIVE SkipSpace(_)
SkipSpace(s) ==
    IF s # <<>> /\ IsSpace(s[1]) THEN SkipSpace(Tail(s)) ELSE s

\* The length of the run of non-whitespace bytes s starts with.
RECURSIVE TokenLen(_)
TokenLen(s) ==
    IF s = <<>> \/ IsSpace(s[1]) THEN 0 ELSE 1 + TokenLen(Tail(s))

\* stream >> a >> b >> c : the first three whitespace-separated tokens, a
\* failed extraction leaving its string empty.
Extract3(line) ==
    LET s1 == SkipSpace(line)
        n1 == TokenLen(s1)
        s2 == SkipSpace(SubSeq(s1, n1 + 1, Len(s1)))
        n2 == TokenLen(s2)
        s3 == SkipSpace(SubSeq(s2, n2 + 1, Len(s2)))
        n3 == TokenLen(s3)
    IN  <<SubSeq(s1, 1, n1), SubSeq(s2, 1, n2), SubSeq(s3, 1, n3)>>

(***************************************************************************)
(* HttpRequest and HttpResponse.                                           *)
(***************************************************************************)
\* A default-constructed HttpRequest.
HttpRequest ==
    [method |-> <<>>, path |-> <<>>, version |-> <<>>,
     headers |-> EmptyMap, body |-> <<>>]

\* A default-constructed HttpResponse.
HttpResponse ==
    [status_code |-> 200, status_text |-> sOK, headers |-> EmptyMap, body |-> <<>>]

(***************************************************************************)
(* socket::parseRequest.                                                   *)
(***************************************************************************)
\* if (line.back() == '\r') line.pop_back();  On an empty line back() is
\* undefined; where the build does not abort, the line stays empty.
StripCR(line) ==
    IF line # <<>> /\ line[Len(line)] = "\r"
    THEN SubSeq(line, 1, Len(line) - 1)
    ELSE line

\* The index of the line that ends the header loop: the first line after the
\* request line that equals "\r"; one past the last line when there is none.
HeaderEnd(lines) ==
    IF \E i \in 2..Len(lines) : lines[i] = <<"\r">>
    THEN CHOOSE i \in 2..Len(lines) :
            lines[i] = <<"\r">> /\ \A j \in 2..(i - 1) : lines[j] # <<"\r">>
    ELSE Len(lines) + 1

\* An iteration that strips every leading space of the value.
RECURSIVE SkipBlanks(_)
SkipBlanks(s) == IF s # <<>> /\ s[1] = " " THEN SkipBlanks(Tail(s)) ELSE s

HeaderLine_trimAll(headers, rawline) ==
    LET line      == StripCR(rawline)
        colon_pos == FirstIndex(line, ":")
    IN  IF colon_pos = 0 THEN headers
        ELSE MapPut(headers, SubSeq(line, 1, colon_pos - 1),
                    SkipBlanks(SubSeq(line, colon_pos + 1, Len(line))))

\* One iteration of the header loop: headers[key] = value when the line has a colon.
HeaderLine(headers, rawline) ==
    LET line      == StripCR(rawline)
        colon_pos == FirstIndex(line, ":")
        key       == SubSeq(line, 1, colon_pos - 1)
        value     == SubSeq(line, colon_pos + 1, Len(line))
    IN  IF colon_pos = 0 THEN headers
        ELSE MapPut(headers, key,
                    IF value # <<>> /\ value[1] = " " THEN Tail(value) ELSE value)

\* The header loop over lines[from..to].
RECURSIVE HeaderLoop(_, _, _, _)
HeaderLoop(headers, lines, from, to) ==
    IF from > to THEN headers
    ELSE HeaderLoop(HeaderLine(headers, lines[from]), lines, from + 1, to)

\* The body loop: body += body_line + "\n" over lines[from..].
RECURSIVE BodyLoop(_, _)
BodyLoop(lines, from) ==
    IF from > Len(lines) THEN <<>>
    ELSE lines[from] \o <<"\n">> \o BodyLoop(lines, from + 1)

parseRequest(raw_request) ==
    LET lines == getlines(raw_request)
        first == IF lines = <<>> THEN <<<<>>, <<>>, <<>>>>
                 ELSE Extract3(StripCR(lines[1]))
        end   == HeaderEnd(lines)
        body  == BodyLoop(lines, end + 1)
    IN  [method  |-> first[1],
         path    |-> first[2],
         version |-> first[3],
         headers |-> HeaderLoop(EmptyMap, lines, 2, end - 1),
         body    |-> IF body # <<>> THEN SubSeq(body, 1, Len(body) - 1) ELSE body]

\* Whether parseRequest evaluates line.back() on an empty string (undefined
\* behaviour): no request line at all (the first getline fails and leaves the
\* line empty), an empty request line, or an empty line inside the header loop.
parseRequestUB(raw_request) ==
    LET lines == getlines(raw_request)
    IN  \/ lines = <<>>
        \/ \E i \in 1..(HeaderEnd(lines) - 1) : i <= Len(lines) /\ lines[i] = <<>>

(***************************************************************************)
(* socket::buildResponse.                                                  *)
(***************************************************************************)
\* buildResponse with the handler's headers left out.
buildResponse_noHeaders(response) ==
    sHttp11 \o ToDec(response.status_code) \o <<" ">> \o response.status_text \o sCRLF
    \o sContentLengthColon \o ToDec(Len(response.body)) \o sCRLF
    \o sCRLF
    \o response.body

RECURSIVE HeaderText(_, _)
HeaderText(headers, keys) ==
    IF keys = <<>> THEN <<>>
    ELSE Head(keys) \o sColonSpace \o headers[Head(keys)] \o sCRLF
         \o HeaderText(headers, Tail(keys))

buildResponse(response) ==
    sHttp11 \o ToDec(response.status_code) \o <<" ">> \o response.status_text \o sCRLF
    \o HeaderText(response.headers, SortedKeys(DOMAIN response.headers))
    \o sContentLengthColon \o ToDec(Len(response.body)) \o sCRLF
    \o sCRLF
    \o response.body

(***************************************************************************)
(* Handlers: the functions an application registers.  A handler returns a  *)
(* response or throws.                                                     *)
(***************************************************************************)
html(content, status_code) ==
    [status_code |-> status_code,
     status_text |-> IF status_code = 200 THEN sOK ELSE sError,
     headers     |-> MapPut(EmptyMap, sContentType, sTextHtml),
     body        |-> content]

json(content, status_code) ==
    [status_code |-> status_code,
     status_text |-> IF status_code = 200 THEN sOK ELSE sError,
     headers     |-> MapPut(EmptyMap, sContentType, sApplicationJson),
     body        |-> content]

text(content, status_code) ==
    [status_code |-> status_code,
     status_text |-> IF status_code = 200 THEN sOK ELSE sError,
     headers     |-> MapPut(EmptyMap, sContentType, sTextPlain),
     body        |-> content]

\* The registered functions of the model: a fixed HTML page, an echo of the
\* request body, a JSON error that sets its own Content-Length, a handler
\* that throws std::runtime_error and one that throws a value that is no
\* std::exception.
Handlers == {"hHi", "hEcho", "hLen", "hThrowStd", "hThrowInt"}

\* handler(request): how a call of the handler ends.
Invoke(handler, request) ==
    CASE handler = "hHi"   -> [kind |-> "return", response |-> html(sHi, 200)]
      [] handler = "hEcho" -> [kind |-> "return", response |-> text(request.body, 200)]
      [] handler = "hLen"  ->
            [kind |-> "return",
             response |-> [json(sAbc, 404) EXCEPT
                             !.headers = MapPut(@, sContentLength, sFive)]]
      [] handler = "hThrowStd" -> [kind |-> "std::exception", response |-> HttpResponse]
      [] handler = "hThrowInt" -> [kind |-> "other", response |-> HttpResponse]

(***************************************************************************)
(* server::routeRequest, the dispatch callback the Router installs.        *)
(***************************************************************************)
NotFound ==
    [status_code |-> 404,
     status_text |-> sNotFound,
     headers     |-> MapPut(EmptyMap, sContentType, sTextHtml),
     body        |-> sNotFoundBody]

\* A lookup that drops the query string of the request path.
RouteLookup_noQuery(routes, request) ==
    LET q    == FirstIndex(request.path, "?")
        path == IF q = 0 THEN request.path ELSE SubSeq(request.path, 1, q - 1)
    IN  IF request.method \in DOMAIN routes /\ path \in DOMAIN routes[request.method]
        THEN routes[request.method][path]
        ELSE "none"

\* The handler the lookup finds, "none" when a lookup misses.
RouteLookup(routes, request) ==
    IF request.method \in DOMAIN routes
       /\ request.path \in DOMAIN routes[request.method]
    THEN routes[request.method][request.path]
    ELSE "none"

\* [handler, kind, response]: the handler invoked ("none" on a miss) and how
\* the call ends.
routeRequest(routes, request) ==
    LET route == RouteLookup(routes, request)
    IN  IF route # "none"
        THEN [handler |-> route] @@ Invoke(route, request)
        ELSE [handler |-> "none", kind |-> "return", response |-> NotFound]

(***************************************************************************)
(* socket::handleClient, the per-connection thread.                        *)
(***************************************************************************)
\* catch (const std::exception& e): what the handler of the try block catches.
Caught(kind) == kind = "std::exception"

BufferSize == 4096

Min(a, b) == IF a < b THEN a ELSE b

\* A read that fills the whole buffer.
Read_fullBuffer(data) ==
    LET n == IF Len(data) < BufferSize THEN Len(data) ELSE BufferSize
    IN  [bytes_read |-> n, buffer |-> SubSeq(data, 1, n)]

\* read(client_socket, buffer, sizeof(buffer) - 1) on a connection on which
\* the client sent data: the bytes read and their number.
Read(data) ==
    LET n == Min(Len(data), BufferSize - 1)
    IN  [bytes_read |-> n, buffer |-> SubSeq(data, 1, n)]

\* A failed read.
ReadError == [bytes_read |-> -1, buffer |-> <<>>]

\* std::string raw_request(buffer): the bytes of the zero-initialised buffer
\* before its first zero byte.
CString(buffer) ==
    LET i == FirstIndex(buffer, NUL)
    IN  IF i = 0 THEN buffer ELSE SubSeq(buffer, 1, i - 1)

\* What one run of handleClient did: the request parsed, the handlers
\* invoked, the bytes sent, the steps taken in order, and how the thread
\* ended ("returned", or "terminate" when the process is ended from it);
\* `sent` is what the client had sent when the read returned.
NoExchange ==
    [sent |-> <<>>, bytes_read |-> 0, request |-> HttpRequest, parsed |-> 0, dispatched |-> 0,
     invoked |-> <<>>, kind |-> "none", response |-> HttpResponse, wire |-> <<>>,
     sends |-> 0, closes |-> 0, log |-> <<>>, exit |-> "none"]

\* The test written bytes_read < 0.
ReadFailed_negative(rd) == rd.bytes_read < 0

\* if (bytes_read <= 0) { close(client_socket); return; }
ReadFailed(rd) == rd.bytes_read <= 0

\* The runs handleClient can make on a read result.  `dangling` says that
\* the socket object has been destroyed, so that the thread's use of `this`
\* is undefined.
handleClient(rd, routes, dangling) ==
    IF ReadFailed(rd)
    THEN {[NoExchange EXCEPT !.bytes_read = rd.bytes_read, !.closes = 1,
                             !.log = <<"read", "close">>, !.exit = "returned"]}
    ELSE
      LET raw_request == CString(rd.buffer)
          request     == parseRequest(raw_request)
          routed      == routeRequest(routes, request)
          base        == [NoExchange EXCEPT !.bytes_read = rd.bytes_read]
          \* Aborted in parseRequest (line.back() on an empty line), or at
          \* the call through the destroyed object.
          aborted     == [base EXCEPT !.log = <<"read", "parse">>, !.parsed = 1,
                                      !.exit = "terminate"]
          called      == [base EXCEPT !.request = request, !.parsed = 1,
                                      !.dispatched = 1,
                                      !.invoked = IF routed.handler = "none" THEN <<>>
                                                  ELSE <<routed.handler>>,
                                      !.kind = routed.kind]
          completed   ==
            CASE routed.kind = "return" ->
                   [called EXCEPT !.response = routed.response,
                                  !.wire = buildResponse(routed.response),
                                  !.sends = 1, !.closes = 1,
                                  !.log = <<"read", "parse", "dispatch", "serialize",
                                            "send", "close">>,
                                  !.exit = "returned"]
              [] Caught(routed.kind) ->
                   [called EXCEPT !.wire = error_response,
                                  !.sends = 1, !.closes = 1,
                                  !.log = <<"read", "parse", "dispatch", "send", "close">>,
                                  !.exit = "returned"]
              [] OTHER ->
                   \* Not a std::exception: no handler of the try block
                   \* matches, the exception leaves the thread function
                   \* and std::terminate is called.
                   [called EXCEPT !.log = <<"read", "parse", "dispatch">>,
                                  !.exit = "terminate"]
      IN  {completed}
          \cup (IF parseRequestUB(raw_request) \/ dangling THEN {aborted} ELSE {})

(***************************************************************************)
(* Bounds of the model.                                                    *)
(***************************************************************************)
\* Calls of start() the application makes.
MaxStarts == 2
\* Calls of stop() the application makes (the destructor's call not counted).
MaxStops == 2
\* Connection threads alive at the same time.
MaxConns == 1
\* Registrations made when the application registers freely.
MaxRegs == 2

\* The background threads server::start can create.
BgThreads == 1..MaxStarts

\* The paths routes are registered under.
Paths == {pRoot, pEcho}

\* What a client sends on a connection before the server's read returns.
Inputs ==
    {inGetRoot, inPostEcho, inPutRoot, inDeleteRoot, inPutEcho, inGetQuery,
     inHeadRoot, inGetEcho, inBareLF}

\* What the single read of a connection can return: the data sent, nothing
\* (the client closed without sending), or an error.
ReadResults == {Read(d) : d \in Inputs \cup {<<>>}} \cup {ReadError}

\* The connections of the model: <<what the client sent, what the read
\* returned>>.
Connections ==
    {<<d, Read(d)>> : d \in Inputs \cup {<<>>}} \cup {<<<<>>, ReadError>>}

\* The registrations of the application of the lifecycle model, in program
\* order: <<method, path, handler>>.
App ==
    <<<<kGET, pRoot, "hHi">>,
      <<kPOST, pEcho, "hEcho">>,
      <<kPUT, pRoot, "hLen">>,
      <<kDELETE, pRoot, "hThrowStd">>,
      <<kPUT, pEcho, "hThrowInt">>>>

(***************************************************************************)
(* State.                                                                  *)
(***************************************************************************)
VARIABLES
    m_routes,         \* server::m_routes : method -> path -> handler
    srv_running,      \* server::m_running
    m_server_thread,  \* server::m_server_thread : the thread it owns, 0 when not joinable
    sock_running,     \* socket::m_running
    m_socket_fd,      \* the listening descriptor: "listening", "shutdown" or "closed"
    object,           \* the server object: "alive" or "destroyed"
    proc,             \* the process: "running" or "terminated" (std::terminate)
    mainpc,           \* where the application thread is ("abort": it called std::terminate)
    inDtor,           \* whether the application thread is inside ~server
    sigpc,            \* where the signal handler's call of stop() is
    bgpc,             \* where each background thread is in socket::run
    inflight,         \* connection threads spawned and not yet ended
    last,             \* the run of handleClient that ended last
    regs,             \* registrations made
    starts,           \* calls of start() made
    stops,            \* calls of stop() the application made
    sockStops,        \* calls of socket::stop() made
    stopSeen,         \* per background thread: socket::stop() was called since it was created
    failAfterStop     \* per background thread: its last accept failed after such a call

vars ==
    <<m_routes, srv_running, m_server_thread, sock_running, m_socket_fd, object, proc,
      mainpc, inDtor, sigpc, bgpc, inflight, last, regs, starts, stops, sockStops,
      stopSeen, failAfterStop>>

routerVars == <<m_routes, srv_running, m_server_thread>>
listenerVars == <<sock_running, m_socket_fd, sockStops>>
threadVars == <<bgpc, inflight, last, failAfterStop>>
callVars == <<regs, starts, stops, stopSeen>>

\* server::server after socket::socket succeeded: the descriptor listens, no
\* route is registered, nothing runs.
Init ==
    /\ m_routes = EmptyMap
    /\ srv_running = FALSE
    /\ m_server_thread = 0
    /\ sock_running = FALSE
    /\ m_socket_fd = "listening"
    /\ object = "alive"
    /\ proc = "running"
    /\ mainpc = "idle"
    /\ inDtor = FALSE
    /\ sigpc = "idle"
    /\ bgpc = [t \in BgThreads |-> "unborn"]
    /\ inflight = 0
    /\ last = NoExchange
    /\ regs = 0
    /\ starts = 0
    /\ stops = 0
    /\ sockStops = 0
    /\ stopSeen = [t \in BgThreads |-> FALSE]
    /\ failAfterStop = [t \in BgThreads |-> FALSE]

(***************************************************************************)
(* Registration: server::get, post, put, del.                              *)
(***************************************************************************)
\* A registration that replaces the whole table of its method.
Register_replaceTable(routes, method, path, handler) ==
    MapPut(routes, method, MapPut(EmptyMap, path, handler))

\* m_routes[method][path] = handler
Register(routes, method, path, handler) ==
    MapPut(routes, method,
           MapPut(IF method \in DOMAIN routes THEN routes[method] ELSE EmptyMap,
                  path, handler))

\* A lookup made with operator[]: a miss inserts an entry that holds an
\* empty handler.
RoutesAfterLookup_subscript(routes, request) ==
    IF request.method \in DOMAIN routes /\ request.path \in DOMAIN routes[request.method]
    THEN routes
    ELSE Register(routes, request.method, request.path, "none")

\* m_routes after routeRequest looked the request up: m_routes.find and
\* method_routes->second.find insert nothing, hit or miss.
RoutesAfterLookup(routes, request) == routes

\* m_routes after a run of handleClient: the table was looked up when the
\* run reached the dispatch callback.
RoutesAfterRun(routes, run) ==
    IF run.dispatched = 1 THEN RoutesAfterLookup(routes, run.request) ELSE routes

\* Routes are registered by the application thread before the first start().
CanRegister == proc = "running" /\ mainpc = "idle" /\ starts = 0

RegisterStep(method, path, handler) ==
    /\ CanRegister
    /\ m_routes' = Register(m_routes, method, path, handler)
    /\ regs' = regs + 1
    /\ UNCHANGED <<srv_running, m_server_thread, listenerVars, object, proc, mainpc,
                   inDtor, sigpc, threadVars, starts, stops, stopSeen>>

get(path, handler) == RegisterStep(kGET, path, handler)
post(path, handler) == RegisterStep(kPOST, path, handler)
put(path, handler) == RegisterStep(kPUT, path, handler)
del(path, handler) == RegisterStep(kDELETE, path, handler)

\* The application's next registration is <<method, path, handler>>.
AppNext(method, path, handler) ==
    regs < Len(App) /\ App[regs + 1] = <<method, path, handler>>

(***************************************************************************)
(* server::start.                                                          *)
(***************************************************************************)
\* m_running = true; std::thread([this]() { m_socket.run(); }) is constructed:
\* the new thread exists before it is assigned to m_server_thread.
StartSpawn ==
    /\ proc = "running" /\ mainpc = "idle" /\ starts < MaxStarts
    /\ srv_running' = TRUE
    /\ starts' = starts + 1
    /\ bgpc' = [bgpc EXCEPT ![starts + 1] = "entry"]
    /\ mainpc' = "start_assign"
    /\ UNCHANGED <<m_routes, m_server_thread, listenerVars, object, proc, inDtor, sigpc,
                   inflight, last, failAfterStop, regs, stops, stopSeen>>

\* An assignment that replaces the thread owned without ending the process.
AssignTerminates_never == FALSE

\* m_server_thread = std::thread(...): std::thread's move assignment calls
\* std::terminate when the thread assigned to is joinable.
AssignTerminates == m_server_thread # 0

StartAssign ==
    /\ proc = "running" /\ mainpc = "start_assign"
    /\ IF AssignTerminates
       THEN proc' = "terminated" /\ mainpc' = "abort" /\ UNCHANGED m_server_thread
       ELSE m_server_thread' = starts /\ mainpc' = "idle" /\ UNCHANGED proc
    /\ UNCHANGED <<m_routes, srv_running, listenerVars, object, inDtor, sigpc, threadVars,
                   callVars>>

(***************************************************************************)
(* server::stop and socket::stop.                                          *)
(***************************************************************************)
\* Where stop() returns to: the application, or ~server.
StopReturn == IF inDtor THEN "dtor" ELSE "idle"

\* The application calls stop().
CallStop ==
    /\ proc = "running" /\ mainpc = "idle" /\ stops < MaxStops
    /\ stops' = stops + 1
    /\ mainpc' = "stop_check"
    /\ UNCHANGED <<routerVars, listenerVars, object, proc, inDtor, sigpc, threadVars, regs,
                   starts, stopSeen>>

\* stop() without its guard.
StopGuard_none == TRUE

\* if (m_running)
StopGuard == srv_running

\* stop() tests its guard: a stopped server returns at once.
StopCheck ==
    /\ proc = "running" /\ mainpc = "stop_check"
    /\ mainpc' = IF StopGuard THEN "stop_clear" ELSE StopReturn
    /\ UNCHANGED <<routerVars, listenerVars, object, proc, inDtor, sigpc, threadVars,
                   callVars>>

\* m_running = false;
StopClear ==
    /\ proc = "running" /\ mainpc = "stop_clear"
    /\ srv_running' = FALSE
    /\ mainpc' = "sock_stop"
    /\ UNCHANGED <<m_routes, m_server_thread, listenerVars, object, proc, inDtor, sigpc,
                   threadVars, callVars>>

\* m_socket.stop(), first statement: m_running = false;
SockStopFlag ==
    /\ proc = "running" /\ mainpc = "sock_stop"
    /\ sock_running' = FALSE
    /\ sockStops' = sockStops + 1
    /\ stopSeen' = [t \in BgThreads |-> bgpc[t] # "unborn"]
    /\ mainpc' = "sock_shutdown"
    /\ UNCHANGED <<routerVars, m_socket_fd, object, proc, inDtor, sigpc, threadVars, regs,
                   starts, stops>>

\* A stop that closes the descriptor.
ShutDown_close == "closed"

\* What shutdown(m_socket_fd, SHUT_RDWR) makes of the descriptor: it stays
\* open and no longer listens.
ShutDown == "shutdown"

\* m_socket.stop(), second statement: shutdown(m_socket_fd, SHUT_RDWR).  A
\* listening socket that was shut down fails every accept from then on.
SockShutdown ==
    /\ proc = "running" /\ mainpc = "sock_shutdown"
    /\ m_socket_fd' = ShutDown
    /\ mainpc' = "join"
    /\ UNCHANGED <<routerVars, sock_running, sockStops, object, proc, inDtor, sigpc,
                   threadVars, callVars>>

\* if (m_server_thread.joinable()) m_server_thread.join(); : join returns
\* when the thread has left socket::run.
Join ==
    /\ proc = "running" /\ mainpc = "join"
    /\ m_server_thread # 0 => bgpc[m_server_thread] = "returned"
    /\ m_server_thread' = 0
    /\ mainpc' = StopReturn
    /\ UNCHANGED <<m_routes, srv_running, listenerVars, object, proc, inDtor, sigpc,
                   threadVars, callVars>>

(***************************************************************************)
(* server::~server and socket::~socket.                                    *)
(***************************************************************************)
\* ~server() { stop(); }
Destroy ==
    /\ proc = "running" /\ mainpc = "idle" /\ object = "alive"
    /\ inDtor' = TRUE
    /\ mainpc' = "stop_check"
    /\ UNCHANGED <<sigpc, routerVars, listenerVars, object, proc, threadVars, callVars>>

\* The members are destroyed after the destructor's body: ~thread calls
\* std::terminate on a joinable thread; ~socket calls stop() and closes the
\* descriptor.
DestroyMembers ==
    /\ proc = "running" /\ mainpc = "dtor"
    /\ IF m_server_thread # 0
       THEN /\ proc' = "terminated"
            /\ mainpc' = "abort"
            /\ UNCHANGED <<listenerVars, object, stopSeen>>
       ELSE /\ sock_running' = FALSE
            /\ sockStops' = sockStops + 1
            /\ stopSeen' = [t \in BgThreads |-> bgpc[t] # "unborn"]
            /\ m_socket_fd' = "closed"
            /\ object' = "destroyed"
            /\ mainpc' = "end"
            /\ UNCHANGED proc
    /\ UNCHANGED <<routerVars, inDtor, sigpc, threadVars, regs, starts, stops>>

(***************************************************************************)
(* socket::run, on a background thread.                                    *)
(***************************************************************************)
\* m_running = true;
RunEnter(t) ==
    /\ proc = "running" /\ bgpc[t] = "entry"
    /\ sock_running' = TRUE
    /\ bgpc' = [bgpc EXCEPT ![t] = "while"]
    /\ UNCHANGED <<routerVars, m_socket_fd, sockStops, object, proc, mainpc, inDtor, sigpc,
                   inflight, last, failAfterStop, callVars>>

\* while (m_running)
RunWhile(t) ==
    /\ proc = "running" /\ bgpc[t] = "while"
    /\ bgpc' = [bgpc EXCEPT ![t] = IF sock_running THEN "accept" ELSE "returned"]
    /\ UNCHANGED <<routerVars, listenerVars, object, proc, mainpc, inDtor, sigpc, inflight,
                   last, failAfterStop, callVars>>

\* accept returns a connection: a detached thread is started on it.
AcceptConnection(t) ==
    /\ proc = "running" /\ bgpc[t] = "accept"
    /\ m_socket_fd = "listening"
    /\ inflight < MaxConns
    /\ inflight' = inflight + 1
    /\ bgpc' = [bgpc EXCEPT ![t] = "while"]
    /\ failAfterStop' = [failAfterStop EXCEPT ![t] = FALSE]
    /\ UNCHANGED <<routerVars, listenerVars, object, proc, mainpc, inDtor, sigpc, last,
                   callVars>>

\* accept fails: at any time for a transient reason, and always once the
\* descriptor was shut down or closed.  if (m_running) log; continue;
AcceptFailure(t) ==
    /\ proc = "running" /\ bgpc[t] = "accept"
    /\ bgpc' = [bgpc EXCEPT ![t] = "while"]
    /\ failAfterStop' = [failAfterStop EXCEPT ![t] = stopSeen[t]]
    /\ UNCHANGED <<routerVars, listenerVars, object, proc, mainpc, inDtor, sigpc, inflight,
                   last, callVars>>

(***************************************************************************)
(* socket::handleClient, on a connection thread.                           *)
(***************************************************************************)
\* The route table after the application's first n registrations.
RECURSIVE AppRoutes(_)
AppRoutes(n) ==
    IF n = 0 THEN EmptyMap
    ELSE Register(AppRoutes(n - 1), App[n][1], App[n][2], App[n][3])

\* handleClient on the application's route tables, computed once.
AppRuns ==
    [rd \in ReadResults, n \in 0..Len(App), dangling \in BOOLEAN |->
        handleClient(rd, AppRoutes(n), dangling)]

\* handleClient(rd, m_routes, dangling), looked up in AppRuns where it is there.
ClientRuns(rd, dangling) ==
    IF regs <= Len(App) /\ m_routes = AppRoutes(regs)
    THEN AppRuns[rd, regs, dangling]
    ELSE handleClient(rd, m_routes, dangling)

\* A connection thread runs handleClient on what its read returns and ends;
\* a run that ends in std::terminate ends the process.
HandleClient ==
    /\ proc = "running" /\ inflight > 0
    /\ \E conn \in Connections :
         \E run \in ClientRuns(conn[2], object = "destroyed") :
            /\ last' = [run EXCEPT !.sent = conn[1]]
            /\ m_routes' = RoutesAfterRun(m_routes, run)
            /\ proc' = IF run.exit = "terminate" THEN "terminated" ELSE proc
    /\ inflight' = inflight - 1
    /\ UNCHANGED <<srv_running, m_server_thread, listenerVars, object, mainpc, inDtor, sigpc, bgpc,
                   failAfterStop, callVars>>

(***************************************************************************)
(* The server: the application thread, the background threads and the      *)
(* connection threads, interleaved.                                        *)
(***************************************************************************)
Next ==
    \/ \E path \in Paths, handler \in Handlers :
         AppNext(kGET, path, handler) /\ get(path, handler)
    \/ \E path \in Paths, handler \in Handlers :
         AppNext(kPOST, path, handler) /\ post(path, handler)
    \/ \E path \in Paths, handler \in Handlers :
         AppNext(kPUT, path, handler) /\ put(path, handler)
    \/ \E path \in Paths, handler \in Handlers :
         AppNext(kDELETE, path, handler) /\ del(path, handler)
    \/ StartSpawn
    \/ StartAssign
    \/ CallStop
    \/ StopCheck
    \/ StopClear
    \/ SockStopFlag
    \/ SockShutdown
    \/ Join
    \/ Destroy
    \/ DestroyMembers
    \/ \E t \in BgThreads : RunEnter(t)
    \/ \E t \in BgThreads : RunWhile(t)
    \/ \E t \in BgThreads : AcceptConnection(t)
    \/ \E t \in BgThreads : AcceptFailure(t)
    \/ HandleClient

Spec == Init /\ [][Next]_vars

(***************************************************************************)
(* Fairness: the scheduler runs every thread that can take a step.  The    *)
(* application's calls, the arrival of a connection and a transient accept *)
(* failure are left to the environment; an accept on a descriptor that was *)
(* shut down or closed returns.                                            *)
(***************************************************************************)
StopSteps == StopCheck \/ StopClear \/ SockStopFlag \/ SockShutdown \/ Join

FairSpec ==
    /\ Spec
    /\ WF_vars(StartAssign)
    /\ WF_vars(StopSteps)
    /\ WF_vars(DestroyMembers)
    /\ WF_vars(HandleClient)
    /\ \A t \in BgThreads :
         /\ WF_vars(RunEnter(t))
         /\ WF_vars(RunWhile(t))
         /\ WF_vars(AcceptFailure(t) /\ m_socket_fd # "listening")

(***************************************************************************)
(* Dispatch and serialization alone: the application registers any routes, *)
(* then one connection is served against the table.                        *)
(***************************************************************************)
\* handleClient applied to what the read of one connection returns.
Serve ==
    /\ proc = "running" /\ last = NoExchange
    /\ \E conn \in Connections :
         \E run \in handleClient(conn[2], m_routes, FALSE) :
            /\ last' = [run EXCEPT !.sent = conn[1]]
            /\ m_routes' = RoutesAfterRun(m_routes, run)
            /\ proc' = IF run.exit = "terminate" THEN "terminated" ELSE proc
    /\ UNCHANGED <<srv_running, m_server_thread, listenerVars, object, mainpc, inDtor, sigpc, bgpc,
                   inflight, failAfterStop, callVars>>

RouteNext ==
    \/ \E path \in Paths, handler \in Handlers :
         regs < MaxRegs /\ last = NoExchange /\ get(path, handler)
    \/ \E path \in Paths, handler \in Handlers :
         regs < MaxRegs /\ last = NoExchange /\ post(path, handler)
    \/ \E path \in Paths, handler \in Handlers :
         regs < MaxRegs /\ last = NoExchange /\ put(path, handler)
    \/ \E path \in Paths, handler \in Handlers :
         regs < MaxRegs /\ last = NoExchange /\ del(path, handler)
    \/ Serve

RouteSpec == Init /\ [][RouteNext]_vars

(***************************************************************************)
(* What a client reads off the connection: the response split at its first *)
(* blank line into status line, header lines and body.                     *)
(***************************************************************************)
\* The position of the first occurrence of pat in s, 0 when there is none.
Find(s, pat) ==
    LET at(i) == SubSeq(s, i, i + Len(pat) - 1) = pat
        last_i == Len(s) - Len(pat) + 1
    IN  IF \E i \in 1..last_i : at(i)
        THEN CHOOSE i \in 1..last_i : at(i) /\ \A j \in 1..(i - 1) : ~at(j)
        ELSE 0

RECURSIVE SplitCRLF(_)
SplitCRLF(s) ==
    LET i == Find(s, <<"\r", "\n">>)
    IN  IF i = 0 THEN <<s>>
        ELSE <<SubSeq(s, 1, i - 1)>> \o SplitCRLF(SubSeq(s, i + 2, Len(s)))

\* The value of a string of decimal digits.
RECURSIVE FromDec(_)
FromDec(ds) ==
    IF ds = <<>> THEN 0
    ELSE 10 * FromDec(SubSeq(ds, 1, Len(ds) - 1))
         + ((CHOOSE i \in 1..10 : Digits[i] = ds[Len(ds)]) - 1)

\* [complete, version, code, text, headers, body] of the bytes of a response;
\* headers is the sequence of <<name, value>> of its header lines.
WireResponse(wire) ==
    LET blank   == Find(wire, <<"\r", "\n", "\r", "\n">>)
        lines   == SplitCRLF(SubSeq(wire, 1, blank - 1))
        status  == lines[1]
        sp1     == FirstIndex(status, " ")
        rest    == SubSeq(status, sp1 + 1, Len(status))
        sp2     == FirstIndex(rest, " ")
        field(l) == LET c == Find(l, <<":", " ">>)
                    IN  <<SubSeq(l, 1, c - 1), SubSeq(l, c + 2, Len(l))>>
    IN  IF blank = 0
        THEN [complete |-> FALSE, version |-> <<>>, code |-> 0, text |-> <<>>,
              headers |-> <<>>, body |-> <<>>]
        ELSE [complete |-> TRUE,
              version  |-> SubSeq(status, 1, sp1 - 1),
              code     |-> FromDec(SubSeq(rest, 1, sp2 - 1)),
              text     |-> SubSeq(rest, sp2 + 1, Len(rest)),
              headers  |-> [i \in 1..(Len(lines) - 1) |-> field(lines[i + 1])],
              body     |-> SubSeq(wire, blank + 4, Len(wire))]

\* The values the response carries for the header called name.
WireValues(w, name) == {w.headers[i][2] : i \in {j \in 1..Len(w.headers) : w.headers[j][1] = name}}

\* The handler registered for a (method, path) pair, "none" when there is none.
Registered(method, path) ==
    IF \E m \in DOMAIN m_routes : m = method /\ \E q \in DOMAIN m_routes[m] : q = path
    THEN m_routes[method][path]
    ELSE "none"

\* The last connection was read, parsed and dispatched, and its thread returned.
Answered == last.exit = "returned" /\ last.dispatched = 1

(***************************************************************************)
(* Properties.                                                             *)
(***************************************************************************)
\* C1: a request whose method and raw path equal a registered pair is
\* answered with the response of the handler registered for the pair: the
\* client reads the handler's status code and status text, every header the
\* handler set, a Content-Length equal to the length of the handler's body,
\* and the handler's body; no other handler is invoked.
C1_HandlerResponseVerbatim ==
    LET h == Registered(last.request.method, last.request.path)
        r == Invoke(h, last.request).response
        w == WireResponse(last.wire)
    IN  (Answered /\ h # "none" /\ Invoke(h, last.request).kind = "return") =>
            /\ last.invoked = <<h>>
            /\ last.sends = 1
            /\ w.complete
            /\ w.code = r.status_code
            /\ w.text = r.status_text
            /\ \A k \in DOMAIN r.headers : r.headers[k] \in WireValues(w, k)
            /\ ToDec(Len(r.body)) \in WireValues(w, sContentLength)
            /\ w.body = r.body

\* A registered handler answered a request that carried a body.
C1_Witness ==
    /\ Answered
    /\ Registered(last.request.method, last.request.path) = "hEcho"
    /\ last.request.body = sAbc
    /\ WireResponse(last.wire).body = sAbc

C3_ContentLengthExact ==
    LET w == WireResponse(last.wire)
    IN  last.sends = 1 =>
            /\ w.complete
            /\ WireValues(w, sContentLength) = {ToDec(Len(w.body))}

\* C4: whatever a handler throws, the connection is answered with the
\* fixed 500 response and closed, and the thread returns.
C4_HandlerErrorsCaught ==
    LET w == WireResponse(last.wire)
    IN  (last.dispatched = 1 /\ last.kind # "return") =>
            /\ last.exit = "returned"
            /\ last.sends = 1
            /\ last.closes = 1
            /\ w.code = 500
            /\ WireValues(w, sContentType) = {sTextPlain}
            /\ WireValues(w, sContentLength) = {<<"2", "1">>}
            /\ w.body = sInternalServerError

\* C5: a read of zero or fewer bytes is followed by no parse, no dispatch
\* and no send; the connection is closed and the thread returns.
C5_EmptyReadClosesSilently ==
    (last.exit # "none" /\ last.bytes_read <= 0) =>
        /\ last.parsed = 0
        /\ last.dispatched = 0
        /\ last.invoked = <<>>
        /\ last.sends = 0
        /\ last.wire = <<>>
        /\ last.closes = 1
        /\ last.log = <<"read", "close">>
        /\ last.exit = "returned"

\* A connection whose client sent nothing was closed.
C5_Witness ==
    last.exit = "returned" /\ last.bytes_read = 0 /\ last.closes = 1

\* C6: a call of stop() on a started server returns (unless the process is
\* ended meanwhile).
C6_StopReturns ==
    (mainpc = "stop_check" /\ starts > 0)
        ~> (mainpc \in {"idle", "dtor", "end"} \/ proc = "terminated")

\* C7: stop() on a server that is not running returns at once and changes
\* nothing of the Router or the Listener: socket::stop is not called and no
\* join is made.
C7_StopWhenStoppedIsNoOp ==
    [][(mainpc = "stop_check" /\ ~srv_running /\ mainpc' # "stop_check") =>
          /\ mainpc' = StopReturn
          /\ UNCHANGED <<m_routes, srv_running, m_server_thread, sock_running,
                         m_socket_fd, sockStops>>]_vars

\* Two calls of stop() on a started server have returned, and socket::stop
\* was called once.
C7_Witness ==
    starts = 1 /\ stops = 2 /\ mainpc = "idle" /\ sockStops = 1

\* The steps of a run with the serialization left out.
SansSerialize(log) == SelectSeq(log, LAMBDA e : e # "serialize")

\* C8: a connection whose read returned bytes is parsed, dispatched,
\* answered and closed in that order, each once.
C8_OneResponsePerConnection ==
    (last.exit # "none" /\ last.bytes_read > 0) =>
        /\ last.parsed = 1
        /\ last.dispatched = 1
        /\ last.sends = 1
        /\ last.closes = 1
        /\ SansSerialize(last.log) = <<"read", "parse", "dispatch", "send", "close">>

\* C9: leaving the test of the loop, a thread whose last accept failed
\* after stop() was called returns from run(), and a thread that sees the
\* Listener running goes on to accept.
C9_AcceptFailureRule ==
    [][\A t \in BgThreads :
          (bgpc[t] = "while" /\ bgpc'[t] # "while") =>
              IF failAfterStop[t] THEN bgpc'[t] = "returned"
              ELSE sock_running => bgpc'[t] = "accept"]_vars

\* The background threads inside socket::run.
InRun == {t \in BgThreads : bgpc[t] \in {"entry", "while", "accept"}}

\* The second of two start() calls with no stop() between them is over.
StartedTwice == starts >= 2 /\ stops = 0 /\ mainpc # "start_assign"

\* C10 as claimed: after the second start() two background threads execute
\* socket::run and the process goes on.
C10_TwoThreadsRun ==
    StartedTwice => (proc = "running" /\ Cardinality(InRun) = 2)

\* C10 amended: the second start() ends in std::terminate, and the running
\* process is never past a start() with two background threads in run().
C10_SecondStartTerminates ==
    /\ StartedTwice => (proc = "terminated" /\ mainpc = "abort")
    /\ (proc = "running" /\ mainpc # "start_assign") => Cardinality(InRun) <= 1

\* The second start() created its thread and ended the process.
C10_Witness ==
    StartedTwice /\ bgpc[2] # "unborn" /\ proc = "terminated"

\* A call of stop() on a started server has completed and the application
\* thread is back in the application.
StopCompleted == sockStops > 0 /\ mainpc = "idle"

\* C11: once stop() has completed, the Router and its Listener are not
\* running and no background thread is inside socket::run, whatever the
\* application called since, start() included.
C11_StoppedIsTerminal ==
    StopCompleted =>
        /\ ~srv_running
        /\ ~sock_running
        /\ \A t \in BgThreads : bgpc[t] \in {"unborn", "returned"}

\* The methods routes can be registered under.
Methods == {kGET, kPOST, kPUT, kDELETE}

\* The handlers of every other pair than (method, path) are the same in the
\* next state.
OthersUnchanged(method, path) ==
    \A m \in Methods, p \in Paths :
        <<m, p>> # <<method, path>> => Registered(m, p)' = Registered(m, p)

\* The step is the registration of handler under (method, path).
IsRegistration(method, path, handler) ==
    \/ method = kGET /\ get(path, handler)
    \/ method = kPOST /\ post(path, handler)
    \/ method = kPUT /\ put(path, handler)
    \/ method = kDELETE /\ del(path, handler)

\* C12: a registration makes its (method, path) pair map to the handler
\* registered, whether or not the pair had one, and leaves the handler of
\* every other pair as it was, the same path under another method included.
C12_RegisterOverwritesOnlyItsPair ==
    [][\A method \in Methods, path \in Paths, handler \in Handlers :
          IsRegistration(method, path, handler) =>
             /\ Registered(method, path)' = handler
             /\ OthersUnchanged(method, path)]_vars

\* Two registrations were made under one method with two paths, and both
\* are in the table.
C12_Witness ==
    /\ regs = 2
    /\ Registered(kGET, pRoot) = "hHi"
    /\ Registered(kGET, pEcho) = "hEcho"

(***************************************************************************)
(* Parsing alone: the application registers an echo route and one          *)
(* connection is served, on requests put together from request lines,      *)
(* header lines, line endings and bodies.                                  *)
(***************************************************************************)
\* A request line of three tokens.
lnPostEcho ==
    <<"P", "O", "S", "T", " ", "/", "e", "c", "h", "o", " ", "H", "T", "T", "P", "/",
      "1", ".", "1">>

\* A request line of one token.
lnGet ==
    <<"G", "E", "T">>

\* A header line.
hdAb ==
    <<"A", ":", " ", "b">>

\* The same name again, two spaces after the colon.
hdA2c ==
    <<"A", ":", " ", " ", "c">>

\* The name in lower case.
hdLower ==
    <<"a", ":", " ", "b">>

\* Two colons, no space.
hdKvw ==
    <<"k", ":", "v", ":", "w">>

\* A line without a colon.
hdNoColon ==
    <<"N", "o", "C", "o", "l", "o", "n">>

\* A body that ends in a line feed.
bdAbcLF ==
    <<"a", "b", "c", "\n">>

\* A body whose first line looks like a header.
bdHeaderLike ==
    <<"X", ":", " ", "y", "\n", "z", "z">>

\* A bare line feed.
sLF ==
    <<"\n">>

\* Header lines a request has at most.
MaxHeaderLines == 2

RequestLines == {lnPostEcho, lnGet, <<>>}
HeaderLines == {hdAb, hdA2c, hdLower, hdKvw, hdNoColon}
LineEndings == {sCRLF, sLF}
Bodies == {<<>>, sAbc, bdAbcLF, bdHeaderLike}

\* The sequences of at most MaxHeaderLines header lines.
HeaderSections == UNION {[1..k -> HeaderLines] : k \in 0..MaxHeaderLines}

\* The lines hs, each followed by the line ending eol.
RECURSIVE Terminated(_, _)
Terminated(hs, eol) ==
    IF hs = <<>> THEN <<>> ELSE hs[1] \o eol \o Terminated(Tail(hs), eol)

\* The bytes of a request: request line, header lines, the blank line when
\* there is one, and the body.
RequestBytes(line, hs, eol, blank, body) ==
    line \o eol \o Terminated(hs, eol) \o (IF blank THEN eol ELSE <<>>) \o body

\* An echo request of n bytes in all, its body one line of text.
Filled(n) ==
    LET head == lnPostEcho \o sCRLF \o sCRLF
    IN  head \o [i \in 1..(n - Len(head)) |-> "a"]

\* An echo request with a zero byte in its body.
bdZero == <<"a", NUL, "b">>

\* Requests that fill the read buffer, and one with a zero byte.
BufferRequests ==
    {Filled(BufferSize - 1), Filled(BufferSize),
     RequestBytes(lnPostEcho, <<>>, sCRLF, TRUE, bdZero)}

Requests ==
    {RequestBytes(line, hs, eol, blank, body) :
        line \in RequestLines, hs \in HeaderSections, eol \in LineEndings,
        blank \in BOOLEAN, body \in Bodies}
    \cup BufferRequests

\* handleClient applied to what the read of one connection returns.
ServeRequest ==
    /\ proc = "running" /\ last = NoExchange
    /\ \E sent \in Requests :
         \E run \in handleClient(Read(sent), m_routes, FALSE) :
            /\ last' = [run EXCEPT !.sent = sent]
            /\ m_routes' = RoutesAfterRun(m_routes, run)
            /\ proc' = IF run.exit = "terminate" THEN "terminated" ELSE proc
    /\ UNCHANGED <<srv_running, m_server_thread, listenerVars, object, mainpc, inDtor, sigpc, bgpc,
                   inflight, failAfterStop, callVars>>

ParseNext ==
    \/ regs = 0 /\ last = NoExchange /\ post(pEcho, "hEcho")
    \/ ServeRequest

ParseSpec == Init /\ [][ParseNext]_vars

\* C13: the parser returns a Request for whatever non-empty data was read:
\* a run that entered the parser goes on to dispatch what it returned.
C13_ParsingTotal ==
    (last.bytes_read > 0 /\ last.parsed = 1) => last.dispatched = 1

\* The lines of what the client of the last connection sent.
SentLines == getlines(last.sent)

\* The index of the line that ends the header section as specified: the
\* first line after the request line that is a lone carriage return or is
\* empty; one past the last line when there is none.
Terminator(lines) ==
    LET ends(i) == lines[i] = <<"\r">> \/ lines[i] = <<>>
    IN  IF \E i \in 2..Len(lines) : ends(i)
        THEN CHOOSE i \in 2..Len(lines) : ends(i) /\ \A j \in 2..(i - 1) : ~ends(j)
        ELSE Len(lines) + 1

\* C14: the headers of the Request come from the lines between the request
\* line and the terminator line and from no later line, and the lines of
\* its body are the lines after the terminator line.
C14_HeaderSectionEnds ==
    last.dispatched = 1 =>
        LET t == Terminator(SentLines)
        IN  /\ last.request.headers = HeaderLoop(EmptyMap, SentLines, 2, t - 1)
            /\ getlines(last.request.body)
                  = SubSeq(SentLines, t + 1, Len(SentLines))

\* A line without the carriage return it ends in.
SansCR(line) ==
    IF line # <<>> /\ line[Len(line)] = "\r" THEN SubSeq(line, 1, Len(line) - 1)
    ELSE line

\* The header lines of what was sent: the lines between the request line
\* and the terminator line, without their carriage returns.
SentHeaderLines ==
    LET t == Terminator(SentLines)
    IN  [i \in 1..(t - 2) |-> SansCR(SentLines[i + 1])]

\* The name a header line gives: everything before its first colon.
NameOf(line) == SubSeq(line, 1, FirstIndex(line, ":") - 1)

\* The value a header line gives: everything after its first colon, less
\* one leading space.
ValueOf(line) ==
    LET after == SubSeq(line, FirstIndex(line, ":") + 1, Len(line))
    IN  IF after # <<>> /\ after[1] = " " THEN SubSeq(after, 2, Len(after))
        ELSE after

RECURSIVE BytesAfterLine(_, _)
BytesAfterLine(s, n) ==
    IF n = 0 THEN s
    ELSE LET i == FirstIndex(s, "\n")
         IN  IF i = 0 THEN <<>>
             ELSE BytesAfterLine(SubSeq(s, i + 1, Len(s)), n - 1)

\* What was sent has a line that is a lone carriage return after its
\* request line, and no empty line before it.
HasBlankLine ==
    LET t == Terminator(SentLines)
    IN  t <= Len(SentLines) /\ SentLines[t] = <<"\r">>

\* The bytes sent after the terminator line.
SentBody == BytesAfterLine(last.sent, Terminator(SentLines))

\* What was sent fits the read buffer and has no zero byte.
TextInBuffer ==
    Len(last.sent) < BufferSize /\ \A i \in 1..Len(last.sent) : last.sent[i] # NUL

\* C16: for a text request within the read buffer, the body of the Request
\* is the bytes sent after the terminator line, and the echo route answers
\* with these bytes.
C16_BodyByteForByte ==
    (last.dispatched = 1 /\ HasBlankLine /\ TextInBuffer) =>
        /\ last.request.body = SentBody
        /\ last.invoked = <<"hEcho">> => WireResponse(last.wire).body = SentBody

SentAsCString ==
    LET n     == Min(Len(last.sent), BufferSize - 1)
        zeros == {i \in 1..n : last.sent[i] = NUL}
    IN  IF zeros = {} THEN SubSeq(last.sent, 1, n)
        ELSE SubSeq(last.sent, 1, (CHOOSE i \in zeros : \A k \in zeros : i <= k) - 1)

C18_DescriptorClosedAtDestruction ==
    [][/\ (m_socket_fd # "closed" /\ m_socket_fd' = "closed") =>
             (object = "alive" /\ object' = "destroyed")
       /\ m_socket_fd = "closed" => m_socket_fd' = "closed"
       /\ (sockStops' # sockStops /\ object' = "alive") =>
             (~sock_running' /\ m_socket_fd' = m_socket_fd)
       /\ (m_socket_fd # m_socket_fd' /\ object' = "alive") =>
             m_socket_fd' = "shutdown"
       /\ object' = "destroyed" => m_socket_fd' = "closed"]_vars

\* The server was stopped by the application and then destroyed: stop ran
\* on the Listener before the destructor's own call, and the descriptor is
\* closed.
C18_Witness ==
    object = "destroyed" /\ m_socket_fd = "closed" /\ stops >= 1 /\ sockStops >= 2

\* C19: when the Router and its Listener have been destroyed, no connection
\* thread is between its accept and its close.
C19_NoConnectionOutlivesServer ==
    object = "destroyed" => inflight = 0

(***************************************************************************)
(* The README's graceful shutdown: a signal handler calls stop() on the    *)
(* server while the application thread goes on, through ~server at the     *)
(* end of main.  The handler's call runs the statements of server::stop    *)
(* concurrently with the application thread.                               *)
(***************************************************************************)
\* signalHandler: if (server_ptr) server_ptr->stop();
SigCallStop ==
    /\ proc = "running" /\ sigpc = "idle"
    /\ starts > 0 /\ object = "alive"
    /\ sigpc' = "stop_check"
    /\ UNCHANGED <<routerVars, listenerVars, object, proc, mainpc, inDtor,
                   threadVars, callVars>>

\* if (m_running)
SigStopCheck ==
    /\ proc = "running" /\ sigpc = "stop_check"
    /\ sigpc' = IF StopGuard THEN "stop_clear" ELSE "done"
    /\ UNCHANGED <<routerVars, listenerVars, object, proc, mainpc, inDtor,
                   threadVars, callVars>>

\* m_running = false;
SigStopClear ==
    /\ proc = "running" /\ sigpc = "stop_clear"
    /\ srv_running' = FALSE
    /\ sigpc' = "sock_stop"
    /\ UNCHANGED <<m_routes, m_server_thread, listenerVars, object, proc, mainpc,
                   inDtor, threadVars, callVars>>

\* m_socket.stop(), first statement.
SigSockStopFlag ==
    /\ proc = "running" /\ sigpc = "sock_stop"
    /\ sock_running' = FALSE
    /\ sockStops' = sockStops + 1
    /\ stopSeen' = [t \in BgThreads |-> bgpc[t] # "unborn"]
    /\ sigpc' = "sock_shutdown"
    /\ UNCHANGED <<routerVars, m_socket_fd, object, proc, mainpc, inDtor,
                   threadVars, regs, starts, stops>>

\* m_socket.stop(), second statement; shutdown fails on a descriptor that
\* was closed.
SigSockShutdown ==
    /\ proc = "running" /\ sigpc = "sock_shutdown"
    /\ m_socket_fd' = IF m_socket_fd = "closed" THEN m_socket_fd ELSE ShutDown
    /\ sigpc' = "join"
    /\ UNCHANGED <<routerVars, sock_running, sockStops, object, proc, mainpc,
                   inDtor, threadVars, callVars>>

\* if (m_server_thread.joinable()) m_server_thread.join();
SigJoin ==
    /\ proc = "running" /\ sigpc = "join"
    /\ m_server_thread # 0 => bgpc[m_server_thread] = "returned"
    /\ m_server_thread' = 0
    /\ sigpc' = "done"
    /\ UNCHANGED <<m_routes, srv_running, listenerVars, object, proc, mainpc,
                   inDtor, threadVars, callVars>>

SigSteps ==
    SigStopCheck \/ SigStopClear \/ SigSockStopFlag \/ SigSockShutdown \/ SigJoin

\* The server with no client connecting and the signal delivered at any
\* time after start().
SignalNext ==
    \/ StartSpawn
    \/ StartAssign
    \/ CallStop
    \/ StopCheck
    \/ StopClear
    \/ SockStopFlag
    \/ SockShutdown
    \/ Join
    \/ Destroy
    \/ DestroyMembers
    \/ \E t \in BgThreads : RunEnter(t)
    \/ \E t \in BgThreads : RunWhile(t)
    \/ \E t \in BgThreads : AcceptFailure(t)
    \/ SigCallStop
    \/ SigStopCheck
    \/ SigStopClear
    \/ SigSockStopFlag
    \/ SigSockShutdown
    \/ SigJoin

SignalSpec == Init /\ [][SignalNext]_vars

\* No background thread is left: none is joinable and none is inside
\* socket::run.
NoThreadLeft ==
    m_server_thread = 0 /\ \A t \in BgThreads : bgpc[t] \in {"unborn", "returned"}

\* C20: in the step in which a call of stop() returns, to the application,
\* to ~server or to the signal handler, the background thread has
\* terminated; and ~server never finds its thread joinable.
C20_StopReturnsAfterThreadEnded ==
    [][/\ (mainpc \in {"stop_check", "join"} /\ mainpc' \in {"idle", "dtor"}) =>
             NoThreadLeft'
       /\ (sigpc # "done" /\ sigpc' = "done") => NoThreadLeft'
       /\ mainpc = "dtor" => mainpc' # "abort"]_vars

\* The route table as the set of its entries: <<method, path, handler>>.
TableEntries ==
    UNION {{<<m, p, m_routes[m][p]>> : p \in DOMAIN m_routes[m]} : m \in DOMAIN m_routes}

\* C21: a step in which a connection is dispatched, on a hit or on a miss,
\* leaves the route table with the entries it had: no pair is added, none
\* is removed and no handler changes.
C21_DispatchKeepsRouteTable ==
    [][(last' # last /\ last'.dispatched = 1) =>
          /\ m_routes' = m_routes
          /\ TableEntries' = TableEntries]_vars

\* A request for a path that is not registered under its method was
\* dispatched against a table that has entries, and missed.
C21_Witness ==
    /\ last.dispatched = 1 /\ last.invoked = <<>>
    /\ last.request.method = kGET /\ last.request.path = pEcho
    /\ TableEntries = {<<kGET, pRoot, "hHi">>, <<kPOST, pEcho, "hEcho">>}

(***************************************************************************)
(* Construction: server::server constructs its socket member, whose        *)
(* constructor creates, configures, binds and listens on the descriptor    *)
(* and throws std::runtime_error at the first call that fails.  The        *)
(* descriptor is "none" (-1) before ::socket and "open" once created.      *)
(***************************************************************************)
\* The state in which socket::socket is entered: m_socket_fd(-1).
CtorInit ==
    /\ m_routes = EmptyMap
    /\ srv_running = FALSE
    /\ m_server_thread = 0
    /\ sock_running = FALSE
    /\ m_socket_fd = "none"
    /\ object = "constructing"
    /\ proc = "running"
    /\ mainpc = "ctor_socket"
    /\ inDtor = FALSE
    /\ sigpc = "idle"
    /\ bgpc = [t \in BgThreads |-> "unborn"]
    /\ inflight = 0
    /\ last = NoExchange
    /\ regs = 0
    /\ starts = 0
    /\ stops = 0
    /\ sockStops = 0
    /\ stopSeen = [t \in BgThreads |-> FALSE]
    /\ failAfterStop = [t \in BgThreads |-> FALSE]

\* throw std::runtime_error(...) out of the constructor: the exception
\* reaches the caller; the object was never constructed, so ~socket does not
\* run for it.
CtorThrow ==
    /\ object' = "failed"
    /\ mainpc' = "ctor_failed"

\* m_socket_fd = ::socket(AF_INET, SOCK_STREAM, 0); if (m_socket_fd == -1) throw
CtorSocket ==
    /\ proc = "running" /\ mainpc = "ctor_socket"
    /\ \E ok \in BOOLEAN :
         IF ok THEN m_socket_fd' = "open" /\ mainpc' = "ctor_setsockopt"
                    /\ UNCHANGED object
         ELSE CtorThrow /\ UNCHANGED m_socket_fd
    /\ UNCHANGED <<routerVars, sock_running, sockStops, proc, inDtor, sigpc,
                   threadVars, callVars>>

\* if (setsockopt(m_socket_fd, ...) < 0) throw
CtorSetsockopt ==
    /\ proc = "running" /\ mainpc = "ctor_setsockopt"
    /\ \E ok \in BOOLEAN :
         IF ok THEN mainpc' = "ctor_bind" /\ UNCHANGED object
         ELSE CtorThrow
    /\ UNCHANGED <<routerVars, listenerVars, proc, inDtor, sigpc, threadVars,
                   callVars>>

\* if (bind(m_socket_fd, ...) < 0) throw
CtorBind ==
    /\ proc = "running" /\ mainpc = "ctor_bind"
    /\ \E ok \in BOOLEAN :
         IF ok THEN mainpc' = "ctor_listen" /\ UNCHANGED object
         ELSE CtorThrow
    /\ UNCHANGED <<routerVars, listenerVars, proc, inDtor, sigpc, threadVars,
                   callVars>>

\* if (listen(m_socket_fd, 5) < 0) throw; otherwise the default handler is
\* installed, server::server installs its dispatch callback and the
\* application has its server.
CtorListen ==
    /\ proc = "running" /\ mainpc = "ctor_listen"
    /\ \E ok \in BOOLEAN :
         IF ok THEN m_socket_fd' = "listening" /\ object' = "alive"
                    /\ mainpc' = "idle"
         ELSE CtorThrow /\ UNCHANGED m_socket_fd
    /\ UNCHANGED <<routerVars, sock_running, sockStops, proc, inDtor, sigpc,
                   threadVars, callVars>>

\* The program from the construction of its server on.
CtorNext ==
    \/ CtorSocket
    \/ CtorSetsockopt
    \/ CtorBind
    \/ CtorListen
    \/ Next

CtorSpec == CtorInit /\ [][CtorNext]_vars

\* C22: when the construction error has reached the caller, no descriptor
\* the constructor obtained is open.
C22_FailedConstructionClosesDescriptor ==
    mainpc = "ctor_failed" => m_socket_fd \in {"none", "closed"}

====
